---- MODULE Spec2Model ----
(***************************************************************************)
(* A model of bevy_polyline's src/polyline.rs: the polyline render asset,  *)
(* the extraction system, the pipeline key and its specialization, the     *)
(* bind-group queue systems and the draw commands.                         *)
(*                                                                         *)
(* The systems of the file share no state with each other except through   *)
(* the render world, so each group of systems is a specification of its    *)
(* own over the module's variables:                                        *)
(*   SpecKey      PolylinePipelineKey and PolylinePipeline::specialize     *)
(*   SpecAsset    Polyline::prepare_asset, then DrawPolyline on the result *)
(*   SpecDraw     DrawPolyline over the phase items of one render pass     *)
(*   SpecExtract  extract_polylines, frame after frame                     *)
(*   SpecQueue    the two queue systems and SetPolylineBindGroup, frame    *)
(*                after frame                                              *)
(***************************************************************************)
EXTENDS Integers, Sequences, FiniteSets, TLC

VARIABLES
    kpc,        \* position of the caller that builds and uses a pipeline key
    samplesIn,  \* the u32 handed to from_msaa_samples
    perspIn,    \* whether the caller inserts PERSPECTIVE
    transpIn,   \* whether the caller inserts TRANSPARENT_MAIN_PASS
    hdrIn,      \* the bool handed to from_hdr
    extraIn,    \* other bits a caller can retain in the key (from_bits_retain)
    key,        \* the PolylinePipelineKey being built
    decoded,    \* Option<u32>: the result of key.msaa_samples()
    desc,       \* Option<RenderPipelineDescriptor>: the result of specialize(key)
    apc,          \* position of the asset preparation: "extracted", "prepared", "aborted"
    bigEndian,    \* byte order of the target the crate is built for
    polylineIn,   \* the extracted Polyline handed to prepare_asset
    deviceOutcome,\* what the render device does with the buffer request
    prepResult,   \* Option<Result<GpuPolyline, PrepareAssetError<Polyline>>>
    polylines,    \* RenderAssets<Polyline>: handle -> Option<GpuPolyline>
    itemHandle,   \* the Handle<Polyline> component of each phase item's entity
    pass,         \* the commands recorded on the TrackedRenderPass
    drawResult,   \* the RenderCommandResult of DrawPolyline for each item
    xpc,          \* "extract": extract_polylines is due; "extracted"; "update"
    mainWorld,    \* main-world entity -> its ComputedVisibility, GlobalTransform, Handle
    renderWorld,  \* render-world entity -> Option<(Handle<Polyline>, PolylineUniform)>
    previous_len, \* the Local<usize> of extract_polylines
    qpc,          \* "queue": the queue systems are due; "render"; "host"; "aborted"
    queued,       \* the queue systems that ran this frame
    polylineBinding, \* polyline_uniforms.uniforms().binding() this frame
    viewBinding,  \* view_uniforms.uniforms.binding() this frame
    views,        \* the render-world entities with an ExtractedView this frame
    bindGroupRes, \* Option<PolylineBindGroup>: the resource
    viewBindGroups, \* view entity -> Option<PolylineViewBindGroup>
    boundGroup    \* what SetPolylineBindGroup set on the pass this frame

keyVars == <<kpc, samplesIn, perspIn, transpIn, hdrIn, extraIn, key, decoded, desc>>

assetVars == <<apc, bigEndian, polylineIn, deviceOutcome, prepResult>>

drawVars == <<polylines, itemHandle, pass, drawResult>>

extractVars == <<xpc, mainWorld, renderWorld, previous_len>>

queueVars ==
    <<qpc, queued, polylineBinding, viewBinding, views, bindGroupRes,
      viewBindGroups, boundGroup>>

vars == <<keyVars, assetVars, drawVars, extractVars, queueVars>>

otherThanKey == <<assetVars, drawVars, extractVars, queueVars>>

otherThanAssetDraw == <<keyVars, extractVars, queueVars>>

otherThanExtract == <<keyVars, assetVars, drawVars, queueVars>>

otherThanQueue == <<keyVars, assetVars, drawVars, extractVars>>

-----------------------------------------------------------------------------
(* Option<T>: None is the empty set, Some(x) the singleton.                *)

None == {}

Some(x) == {x}

Unwrap(o) == CHOOSE x \in o : TRUE

-----------------------------------------------------------------------------
(* u32 values.  TLC's integers are 32-bit signed, so a u32 is the set of   *)
(* its set bit positions (bit 0 is the least significant).                 *)

U32_BITS == 32

BitPos == 0 .. (U32_BITS - 1)

RECURSIVE Pow2(_)
Pow2(n) == IF n = 0 THEN 1 ELSE 2 * Pow2(n - 1)

\* the u32 with the value n, for 0 <= n < 2^31
ToBits(n) == {i \in 0 .. (U32_BITS - 2) : (n \div Pow2(i)) % 2 = 1}

RECURSIVE ToNat(_)
\* the value of a u32 below 2^31
ToNat(bits) ==
    IF bits = {} THEN 0
    ELSE LET i == CHOOSE j \in bits : TRUE IN Pow2(i) + ToNat(bits \ {i})

BitAnd(a, b) == a \cap b

BitOr(a, b) == a \cup b

\* a << n on u32: bits shifted past bit 31 are lost
Shl(a, n) == {i + n : i \in a} \cap BitPos

\* a >> n on u32
Shr(a, n) == {i - n : i \in {j \in a : j >= n}}

\* u32::trailing_zeros: 32 for 0
trailing_zeros(x) ==
    IF x = {} THEN U32_BITS ELSE CHOOSE i \in x : \A j \in x : i <= j

\* u32::count_ones
count_ones(x) == Cardinality(x)

-----------------------------------------------------------------------------
(* PolylinePipelineKey                                                     *)

NONE == ToBits(0)

PERSPECTIVE == Shl(ToBits(1), 0)

TRANSPARENT_MAIN_PASS == Shl(ToBits(1), 1)

HDR == Shl(ToBits(1), 2)

\* a two-bit field, as if the field were sized for 8x MSAA only
MSAA_MASK_BITS_TwoBits == ToBits(3)

MSAA_MASK_BITS == ToBits(7)

MSAA_SHIFT_BITS == U32_BITS - count_ones(MSAA_MASK_BITS)

MSAA_RESERVED_BITS == Shl(MSAA_MASK_BITS, MSAA_SHIFT_BITS)

\* bitflags' contains: every bit of flag is set in k
contains(k, flag) == BitAnd(k, flag) = flag

\* the field left in the low bits, where the mode flags live
from_msaa_samples_Unshifted(samples) ==
    BitAnd(ToBits(trailing_zeros(samples)), MSAA_MASK_BITS)

\* the sample count itself stored in the field, not its log2
from_msaa_samples_Raw(samples) ==
    Shl(BitAnd(samples, MSAA_MASK_BITS), MSAA_SHIFT_BITS)

from_msaa_samples(samples) ==
    LET msaa_bits ==
            Shl(BitAnd(ToBits(trailing_zeros(samples)), MSAA_MASK_BITS),
                MSAA_SHIFT_BITS)
    IN  msaa_bits

msaa_samples(k) ==
    Shl(ToBits(1), ToNat(BitAnd(Shr(k, MSAA_SHIFT_BITS), MSAA_MASK_BITS)))

from_hdr(hdr) == IF hdr THEN HDR ELSE NONE

-----------------------------------------------------------------------------
(* PolylinePipeline::specialize                                            *)

\* PERSPECTIVE tested before TRANSPARENT_MAIN_PASS
specialize_PerspectiveFirst(k) ==
    LET lbd ==
            IF contains(k, PERSPECTIVE)
            THEN <<"transparent_polyline_pipeline", "ALPHA_BLENDING", TRUE>>
            ELSE IF contains(k, TRANSPARENT_MAIN_PASS)
            THEN <<"transparent_polyline_pipeline", "ALPHA_BLENDING", FALSE>>
            ELSE <<"opaque_polyline_pipeline", "REPLACE", TRUE>>
    IN  [label |-> lbd[1], blend |-> lbd[2], depth_write_enabled |-> lbd[3],
         format |-> IF contains(k, HDR) THEN "TEXTURE_FORMAT_HDR"
                    ELSE "bevy_default",
         vertex_entry_point |-> "vertex", fragment_entry_point |-> "fragment",
         array_stride |-> 12, step_mode |-> "Instance",
         attribute_offsets |-> <<0, 12>>, write_mask |-> "ALL",
         layout |-> <<>>, topology |-> "TriangleList", cull_mode |-> "None",
         depth_format |-> "Depth32Float", depth_compare |-> "Greater",
         multisample_count |-> msaa_samples(k),
         alpha_to_coverage_enabled |-> FALSE]

specialize(k) ==
    LET lbd ==
            IF contains(k, TRANSPARENT_MAIN_PASS)
            THEN <<"transparent_polyline_pipeline", "ALPHA_BLENDING", FALSE>>
            ELSE IF contains(k, PERSPECTIVE)
            THEN <<"transparent_polyline_pipeline", "ALPHA_BLENDING", TRUE>>
            ELSE <<"opaque_polyline_pipeline", "REPLACE", TRUE>>
    IN  [label |-> lbd[1], blend |-> lbd[2], depth_write_enabled |-> lbd[3],
         format |-> IF contains(k, HDR) THEN "TEXTURE_FORMAT_HDR"
                    ELSE "bevy_default",
         vertex_entry_point |-> "vertex", fragment_entry_point |-> "fragment",
         array_stride |-> 12, step_mode |-> "Instance",
         attribute_offsets |-> <<0, 12>>, write_mask |-> "ALL",
         layout |-> <<>>, topology |-> "TriangleList", cull_mode |-> "None",
         depth_format |-> "Depth32Float", depth_compare |-> "Greater",
         multisample_count |-> msaa_samples(k),
         alpha_to_coverage_enabled |-> FALSE]

-----------------------------------------------------------------------------
(* SpecKey: a caller builds a key from a sample count and mode flags,      *)
(* decodes the sample count and specializes the pipeline.                  *)

\* every value 0..MaxMsaaInput is tried as a sample count
MaxMsaaInput == 130

\* sample counts: the small values, every single-bit value, and all ones
MsaaInputs ==
    {ToBits(n) : n \in 0 .. MaxMsaaInput} \cup {{b} : b \in BitPos} \cup {BitPos}

\* bits outside the flags and the MSAA field that from_bits_retain keeps
ExtraBits == {{}, {3}, {MSAA_SHIFT_BITS - 1}}

InitKey ==
    /\ kpc = "start"
    /\ samplesIn \in MsaaInputs
    /\ perspIn \in BOOLEAN
    /\ transpIn \in BOOLEAN
    /\ hdrIn \in BOOLEAN
    /\ extraIn \in ExtraBits
    /\ key = NONE
    /\ decoded = None
    /\ desc = None

FromMsaaSamples ==
    /\ kpc = "start"
    /\ key' = from_msaa_samples(samplesIn)
    /\ kpc' = "msaa"
    /\ UNCHANGED <<samplesIn, perspIn, transpIn, hdrIn, extraIn, decoded, desc>>
    /\ UNCHANGED otherThanKey

\* k | from_hdr(hdr) | PERSPECTIVE | TRANSPARENT_MAIN_PASS | extra: the
\* bitflags union a caller forms
insert_flags(k, hdr, persp, transp, extra) ==
    BitOr(BitOr(BitOr(BitOr(k, from_hdr(hdr)),
                      IF persp THEN PERSPECTIVE ELSE NONE),
                IF transp THEN TRANSPARENT_MAIN_PASS ELSE NONE),
          extra)

InsertFlags ==
    /\ kpc = "msaa"
    /\ key' = insert_flags(key, hdrIn, perspIn, transpIn, extraIn)
    /\ kpc' = "key"
    /\ UNCHANGED <<samplesIn, perspIn, transpIn, hdrIn, extraIn, decoded, desc>>
    /\ UNCHANGED otherThanKey

MsaaSamples ==
    /\ kpc \in {"msaa", "key"}
    /\ decoded = None
    /\ decoded' = Some(msaa_samples(key))
    /\ UNCHANGED <<kpc, samplesIn, perspIn, transpIn, hdrIn, extraIn, key, desc>>
    /\ UNCHANGED otherThanKey

Specialize ==
    /\ kpc = "key"
    /\ desc' = Some(specialize(key))
    /\ kpc' = "done"
    /\ UNCHANGED <<samplesIn, perspIn, transpIn, hdrIn, extraIn, key, decoded>>
    /\ UNCHANGED otherThanKey

NextKey == FromMsaaSamples \/ InsertFlags \/ MsaaSamples \/ Specialize

\* no pipeline key is being built
KeyIdle ==
    /\ kpc = "idle"
    /\ samplesIn = NONE
    /\ perspIn = FALSE
    /\ transpIn = FALSE
    /\ hdrIn = FALSE
    /\ extraIn = {}
    /\ key = NONE
    /\ decoded = None
    /\ desc = None

-----------------------------------------------------------------------------
(* Polyline and its RenderAsset implementation                             *)

\* an f32 is its IEEE-754 bit pattern, as four bytes, most significant first
F32_ZERO == <<0, 0, 0, 0>>

F32_ONE == <<63, 128, 0, 0>>

F32_TWO == <<64, 0, 0, 0>>

\* the Vec3 values polylines are made of: three f32 each
PointSet ==
    {<<F32_ZERO, F32_ZERO, F32_ZERO>>, <<F32_ONE, F32_ZERO, F32_ZERO>>,
     <<F32_ZERO, F32_ONE, F32_TWO>>}

\* polylines of up to MaxPoints points are prepared
MaxPoints == 5

Polylines ==
    {[vertices |-> v] : v \in UNION {[1 .. n -> PointSet] : n \in 0 .. MaxPoints}}

Reverse(q) == [i \in 1 .. Len(q) |-> q[Len(q) + 1 - i]]

\* the bytes of an f32 in memory, in the target's byte order
to_ne_bytes(f, big) == IF big THEN f ELSE Reverse(f)

from_ne_bytes(b, big) == IF big THEN b ELSE Reverse(b)

RECURSIVE Flatten(_)
Flatten(qs) == IF qs = <<>> THEN <<>> ELSE Head(qs) \o Flatten(Tail(qs))

\* bevy::core::cast_slice::<Vec3, u8>: the memory of the slice, read as bytes:
\* x, y, z of each point in turn, with no padding
cast_slice(vertices, big) ==
    Flatten([i \in 1 .. Len(vertices) |->
                 Flatten([c \in 1 .. 3 |-> to_ne_bytes(vertices[i][c], big)])])

\* usize as u32: the low 32 bits, two 16-bit halves at a time
AsU32(n) == (n % 65536) + 65536 * ((n \div 65536) % 65536)

\* what the device can do with a buffer request: create the buffer, report
\* the failure and hand back an invalid buffer, or panic in the error handler
DeviceOutcomes == {"created", "invalid", "panic"}

\* RenderDevice::create_buffer_with_data: a Buffer, or no return (a panic).
\* The signature has no error value.
create_buffer_with_data(descriptor, outcome) ==
    CASE outcome = "created" ->
            Some([label |-> descriptor.label, usage |-> descriptor.usage,
                  valid |-> TRUE, contents |-> descriptor.contents])
      [] outcome = "invalid" ->
            Some([label |-> descriptor.label, usage |-> descriptor.usage,
                  valid |-> FALSE, contents |-> <<>>])
      [] outcome = "panic" -> None

\* the vertex count taken from the byte length of the buffer
prepare_asset_ByteCount(polyline, outcome, big) ==
    LET vertex_buffer_data == cast_slice(polyline.vertices, big)
        vertex_buffer ==
            create_buffer_with_data(
                [usage |-> "VERTEX", label |-> "Polyline Vertex Buffer",
                 contents |-> vertex_buffer_data], outcome)
    IN  IF vertex_buffer = None
        THEN [tag |-> "Panic", value |-> None, retry |-> None]
        ELSE [tag |-> "Ok",
              value |-> Some([vertex_buffer |-> Unwrap(vertex_buffer),
                              vertex_count |-> AsU32(Len(vertex_buffer_data))]),
              retry |-> None]

\* the failure reported as Err(RetryNextUpdate(polyline))
prepare_asset_RetryOnFailure(polyline, outcome, big) ==
    LET vertex_buffer_data == cast_slice(polyline.vertices, big)
        vertex_buffer ==
            create_buffer_with_data(
                [usage |-> "VERTEX", label |-> "Polyline Vertex Buffer",
                 contents |-> vertex_buffer_data], "created")
    IN  IF outcome # "created"
        THEN [tag |-> "Err", value |-> None, retry |-> Some(polyline)]
        ELSE [tag |-> "Ok",
              value |-> Some([vertex_buffer |-> Unwrap(vertex_buffer),
                              vertex_count |-> AsU32(Len(polyline.vertices))]),
              retry |-> None]

\* Polyline::prepare_asset.  The result is Ok(GpuPolyline) whenever the call
\* returns; "Panic" stands for the call that does not return.  retry is the
\* payload of Err(PrepareAssetError::RetryNextUpdate(_)), which no path builds.
prepare_asset(polyline, outcome, big) ==
    LET vertex_buffer_data == cast_slice(polyline.vertices, big)
        vertex_buffer ==
            create_buffer_with_data(
                [usage |-> "VERTEX", label |-> "Polyline Vertex Buffer",
                 contents |-> vertex_buffer_data], outcome)
    IN  IF vertex_buffer = None
        THEN [tag |-> "Panic", value |-> None, retry |-> None]
        ELSE [tag |-> "Ok",
              value |-> Some([vertex_buffer |-> Unwrap(vertex_buffer),
                              vertex_count |-> AsU32(Len(polyline.vertices))]),
              retry |-> None]

-----------------------------------------------------------------------------
(* DrawPolyline                                                            *)

u32_max(a, b) == IF a >= b THEN a ELSE b

\* u32 subtraction, as the mathematical difference: a negative result is an
\* underflow (a panic with overflow checks, a wrapped value without)
u32_sub(a, b) == a - b

\* the count of points less one, with no guard for the empty polyline
num_instances_NoMax(vertex_count) == u32_sub(vertex_count, 1)

num_instances(vertex_count) == u32_sub(u32_max(vertex_count, 1), 1)

SetVertexBuffer(slot, buffer) ==
    [op |-> "set_vertex_buffer", slot |-> Some(slot), buffer |-> Some(buffer),
     vertices |-> None, instances |-> None]

Draw(vertices, instances) ==
    [op |-> "draw", slot |-> None, buffer |-> None,
     vertices |-> Some(vertices), instances |-> Some(instances)]

\* a draw of no instances issued for the missing polyline as well
DrawPolylineRender_DrawOnMissing(pl_handle, assets, p) ==
    IF assets[pl_handle] # None
    THEN LET gpu_polyline == Unwrap(assets[pl_handle]) IN
         [pass |-> p \o <<SetVertexBuffer(0, gpu_polyline.vertex_buffer),
                          Draw(<<0, 6>>,
                               <<0, num_instances(gpu_polyline.vertex_count)>>)>>,
          result |-> "Success"]
    ELSE [pass |-> p \o <<Draw(<<0, 6>>, <<0, 0>>)>>, result |-> "Failure"]

\* DrawPolyline::render for the item whose entity carries pl_handle: the pass
\* after the command, and its RenderCommandResult.  Ranges a..b are <<a, b>>.
DrawPolylineRender(pl_handle, assets, p) ==
    IF assets[pl_handle] # None
    THEN LET gpu_polyline == Unwrap(assets[pl_handle]) IN
         [pass |-> p \o <<SetVertexBuffer(0, gpu_polyline.vertex_buffer),
                          Draw(<<0, 6>>,
                               <<0, num_instances(gpu_polyline.vertex_count)>>)>>,
          result |-> "Success"]
    ELSE [pass |-> p, result |-> "Failure"]

\* polyline handles and phase items of a render pass
MaxHandles == 2

MaxItems == 2

Handles == 1 .. MaxHandles

Items == 1 .. MaxItems

\* the draw function of item e runs DrawPolyline, once per pass
DrawItem(e) ==
    /\ apc # "aborted"
    /\ drawResult[e] = "NotRun"
    /\ LET r == DrawPolylineRender(itemHandle[e], polylines, pass) IN
        /\ pass' = r.pass
        /\ drawResult' = [drawResult EXCEPT ![e] = r.result]
    /\ UNCHANGED <<polylines, itemHandle, assetVars>>
    /\ UNCHANGED otherThanAssetDraw

-----------------------------------------------------------------------------
(* SpecAsset: one extracted polyline is prepared, and the item that        *)
(* references it is drawn, before or after the preparation.                *)

\* the handle of the asset being prepared
AssetHandle == 1

InitAsset ==
    /\ apc = "extracted"
    /\ bigEndian \in BOOLEAN
    /\ polylineIn \in Polylines
    /\ deviceOutcome \in DeviceOutcomes
    /\ prepResult = None
    /\ polylines = [h \in Handles |-> None]
    /\ itemHandle = [e \in Items |-> AssetHandle]
    /\ pass = <<>>
    /\ drawResult = [e \in Items |-> "NotRun"]

\* prepare_asset and what its caller does with each result: Ok is stored in
\* RenderAssets, Err(RetryNextUpdate(p)) queues p again, a panic ends the app
PrepareAsset ==
    /\ apc = "extracted"
    /\ LET r == prepare_asset(polylineIn, deviceOutcome, bigEndian) IN
        /\ prepResult' = Some(r)
        /\ apc' = CASE r.tag = "Ok" -> "prepared"
                     [] r.tag = "Err" -> "extracted"
                     [] r.tag = "Panic" -> "aborted"
        /\ polylines' = IF r.tag = "Ok"
                        THEN [polylines EXCEPT ![AssetHandle] = r.value]
                        ELSE polylines
    /\ UNCHANGED <<bigEndian, polylineIn, deviceOutcome, itemHandle, pass, drawResult>>
    /\ UNCHANGED otherThanAssetDraw

DrawPrepared == DrawItem(1)

NextAsset == PrepareAsset \/ DrawPrepared

-----------------------------------------------------------------------------
(* SpecDraw: the items of one render pass are drawn in any order, against  *)
(* a RenderAssets cache that holds a GpuPolyline for some handles only.    *)

\* the prepared polylines the cache can hold: 0, 1 and 2 points
CachedPolylines ==
    {Unwrap(prepare_asset([vertices |-> [i \in 1 .. n |-> <<F32_ONE, F32_ZERO, F32_ZERO>>]],
                          "created", FALSE).value) : n \in 0 .. 2}

AssetIdle ==
    /\ apc = "idle"
    /\ bigEndian = FALSE
    /\ polylineIn = [vertices |-> <<>>]
    /\ deviceOutcome = "created"
    /\ prepResult = None

\* no render pass is being recorded
DrawIdle ==
    /\ polylines = [h \in Handles |-> None]
    /\ itemHandle = [e \in Items |-> AssetHandle]
    /\ pass = <<>>
    /\ drawResult = [e \in Items |-> "NotRun"]

InitDraw ==
    /\ AssetIdle
    /\ polylines \in [Handles -> {None} \cup {Some(g) : g \in CachedPolylines}]
    /\ itemHandle \in [Items -> Handles]
    /\ pass = <<>>
    /\ drawResult = [e \in Items |-> "NotRun"]

DrawAny == \E e \in Items : DrawItem(e)

NextDraw == DrawAny

-----------------------------------------------------------------------------
(* extract_polylines                                                       *)

\* entities of the two worlds; an entity has the same id in both
MaxEntities == 2

Entities == 1 .. MaxEntities

\* GlobalTransform values: an affine map, a 3x3 matrix by columns and a
\* translation
AffineIdentity ==
    [matrix3 |-> <<(<<1, 0, 0>>), (<<0, 1, 0>>), (<<0, 0, 1>>)>>,
     translation |-> <<0, 0, 0>>]

AffineMoved ==
    [matrix3 |-> <<(<<2, 0, 0>>), (<<0, 2, 0>>), (<<0, 0, 2>>)>>,
     translation |-> <<1, 2, 3>>]

GlobalTransforms == {AffineIdentity, AffineMoved}

\* GlobalTransform::compute_matrix: the Mat4 of the affine map, by columns
compute_matrix(t) ==
    <<t.matrix3[1] \o <<0>>, t.matrix3[2] \o <<0>>, t.matrix3[3] \o <<0>>,
      t.translation \o <<1>>>>

StrongHandle(h) == [id |-> h, strong |-> TRUE]

\* the handles of two polyline assets, which entities refer to
EntityHandles == {StrongHandle(AssetHandle), StrongHandle(AssetHandle + 1)}

\* Handle::clone_weak
clone_weak(handle) == [id |-> handle.id, strong |-> FALSE]

\* what the query yields for an entity: (&ComputedVisibility, &GlobalTransform,
\* &Handle<Polyline>)
MainComponents ==
    [visible : BOOLEAN, transform : GlobalTransforms, handle : EntityHandles]

\* every entity of the query extracted, its visibility not looked at
extract_values_NoVisibilityCheck(world) ==
    [i \in 1 .. MaxEntities |->
        <<i, [handle |-> clone_weak(world[i].handle),
              uniform |-> [transform |-> compute_matrix(world[i].transform)]]>>]

\* the loop of extract_polylines: the (entity, (handle, PolylineUniform))
\* values of the visible entities, in query order
extract_values(world) ==
    LET all == [i \in 1 .. MaxEntities |->
                   <<i, [handle |-> clone_weak(world[i].handle),
                         uniform |-> [transform |-> compute_matrix(world[i].transform)]]>>]
        is_visible(v) == world[v[1]].visible
    IN  SelectSeq(all, is_visible)

\* Commands::insert_or_spawn_batch: each entity of the batch gets the bundle,
\* over the components of these types it has; no other entity is touched
insert_or_spawn_batch(world, values) ==
    [e \in Entities |->
        IF \E i \in 1 .. Len(values) : values[i][1] = e
        THEN Some((CHOOSE v \in {values[i] : i \in 1 .. Len(values)} : v[1] = e)[2])
        ELSE world[e]]

ExtractPolylines ==
    /\ xpc = "extract"
    /\ LET values == extract_values(mainWorld) IN
        /\ previous_len' = Len(values)
        /\ renderWorld' = insert_or_spawn_batch(renderWorld, values)
    /\ xpc' = "extracted"
    /\ UNCHANGED mainWorld
    /\ UNCHANGED otherThanExtract

\* between two extractions the app runs a frame of the main world: visibility
\* is computed anew, transforms are propagated, handles are replaced
UpdateEntity ==
    /\ xpc \in {"extracted", "update"}
    /\ \E e \in Entities : \E c \in MainComponents :
           /\ c # mainWorld[e]
           /\ mainWorld' = [mainWorld EXCEPT ![e] = c]
    /\ xpc' = "update"
    /\ UNCHANGED <<renderWorld, previous_len>>
    /\ UNCHANGED otherThanExtract

\* the next run of the extract schedule; the render app has either kept the
\* entities of its world or dropped them
StartExtract ==
    /\ xpc \in {"extracted", "update"}
    /\ \E cleared \in BOOLEAN :
           renderWorld' = IF cleared THEN [e \in Entities |-> None] ELSE renderWorld
    /\ xpc' = "extract"
    /\ UNCHANGED <<mainWorld, previous_len>>
    /\ UNCHANGED otherThanExtract

InitExtract ==
    /\ xpc = "extract"
    /\ mainWorld \in [Entities -> MainComponents]
    /\ renderWorld = [e \in Entities |-> None]
    /\ previous_len = 0

ExtractIdle ==
    /\ xpc = "idle"
    /\ mainWorld = [e \in Entities |->
                       [visible |-> FALSE, transform |-> AffineIdentity,
                        handle |-> StrongHandle(AssetHandle)]]
    /\ renderWorld = [e \in Entities |-> None]
    /\ previous_len = 0

NextExtract == ExtractPolylines \/ UpdateEntity \/ StartExtract

-----------------------------------------------------------------------------
(* queue_polyline_bind_group, queue_polyline_view_bind_groups and          *)
(* SetPolylineBindGroup                                                    *)

\* the uniform buffers a binding can refer to
MaxBuffers == 2

Buffers == 1 .. MaxBuffers

\* the render-world entities that can be views
MaxViews == 2

ViewEntities == 1 .. MaxViews

Bindings == {None} \cup {Some(b) : b \in Buffers}

\* RenderDevice::create_bind_group for one entry at binding 0
create_bind_group(label, layout, resource) ==
    [label |-> label, layout |-> layout,
     entries |-> <<[binding |-> 0, resource |-> resource]>>]

\* the resource removed when the buffer has no binding
queue_polyline_bind_group_Discarding(res, binding) ==
    IF binding # None
    THEN Some([value |-> create_bind_group("polyline_bind_group",
                                           "polyline_layout", Unwrap(binding))])
    ELSE None

\* queue_polyline_bind_group: the PolylineBindGroup resource after the system
queue_polyline_bind_group(res, binding) ==
    IF binding # None
    THEN Some([value |-> create_bind_group("polyline_bind_group",
                                           "polyline_layout", Unwrap(binding))])
    ELSE res

\* queue_polyline_view_bind_groups: the PolylineViewBindGroup components after
\* the system
queue_polyline_view_bind_groups(groups, view_binding, view_entities) ==
    IF view_binding # None
    THEN [e \in ViewEntities |->
             IF e \in view_entities
             THEN Some([value |-> create_bind_group("polyline_view_bind_group",
                                                    "view_layout",
                                                    Unwrap(view_binding))])
             ELSE groups[e]]
    ELSE groups

QueuePolylineBindGroup ==
    /\ qpc = "queue"
    /\ "polyline" \notin queued
    /\ bindGroupRes' = queue_polyline_bind_group(bindGroupRes, polylineBinding)
    /\ queued' = queued \cup {"polyline"}
    /\ UNCHANGED <<qpc, polylineBinding, viewBinding, views, viewBindGroups, boundGroup>>
    /\ UNCHANGED otherThanQueue

QueuePolylineViewBindGroups ==
    /\ qpc = "queue"
    /\ "view" \notin queued
    /\ viewBindGroups' =
           queue_polyline_view_bind_groups(viewBindGroups, viewBinding, views)
    /\ queued' = queued \cup {"view"}
    /\ UNCHANGED <<qpc, polylineBinding, viewBinding, views, bindGroupRes, boundGroup>>
    /\ UNCHANGED otherThanQueue

\* the Queue set is over: the render phase starts
StartRender ==
    /\ qpc = "queue"
    /\ queued = {"polyline", "view"}
    /\ qpc' = "render"
    /\ UNCHANGED <<queued, polylineBinding, viewBinding, views, bindGroupRes,
                   viewBindGroups, boundGroup>>
    /\ UNCHANGED otherThanQueue

\* the dynamic offsets an item's DynamicUniformIndex can hold
UniformIndices == {0, 256}

\* SetPolylineBindGroup::<I>::render, for I = 1.  SRes<PolylineBindGroup>
\* panics when the resource does not exist.
SetPolylineBindGroupRender ==
    /\ qpc = "render"
    /\ IF bindGroupRes = None
       THEN /\ qpc' = "aborted"
            /\ UNCHANGED boundGroup
       ELSE /\ \E index \in UniformIndices :
                   boundGroup' = Some([index |-> 1,
                                       bind_group |-> Unwrap(bindGroupRes).value,
                                       offsets |-> <<index>>])
            /\ UNCHANGED qpc
    /\ UNCHANGED <<queued, polylineBinding, viewBinding, views, bindGroupRes,
                   viewBindGroups>>
    /\ UNCHANGED otherThanQueue

\* before the next Queue set the host writes the uniform buffers anew, which
\* decides whether each has a binding and to which buffer
PrepareUniforms ==
    /\ qpc \in {"render", "host"}
    /\ \E pb \in Bindings : \E vb \in Bindings :
           /\ <<pb, vb>> # <<polylineBinding, viewBinding>>
           /\ polylineBinding' = pb
           /\ viewBinding' = vb
    /\ qpc' = "host"
    /\ UNCHANGED <<queued, views, bindGroupRes, viewBindGroups, boundGroup>>
    /\ UNCHANGED otherThanQueue

\* ... and extracts the views, into a render world whose entities it has
\* either kept or dropped
ExtractViews ==
    /\ qpc \in {"render", "host"}
    /\ views' \in SUBSET ViewEntities
    /\ \E cleared \in BOOLEAN :
           viewBindGroups' = IF cleared THEN [e \in ViewEntities |-> None]
                             ELSE viewBindGroups
    /\ <<views', viewBindGroups'>> # <<views, viewBindGroups>>
    /\ qpc' = "host"
    /\ UNCHANGED <<queued, polylineBinding, viewBinding, bindGroupRes, boundGroup>>
    /\ UNCHANGED otherThanQueue

\* the Queue set of the next frame starts, with a new render pass to record
StartQueue ==
    /\ qpc \in {"render", "host"}
    /\ queued' = {}
    /\ boundGroup' = None
    /\ qpc' = "queue"
    /\ UNCHANGED <<polylineBinding, viewBinding, views, bindGroupRes, viewBindGroups>>
    /\ UNCHANGED otherThanQueue

InitQueue ==
    /\ qpc = "queue"
    /\ queued = {}
    /\ polylineBinding \in Bindings
    /\ viewBinding \in Bindings
    /\ views \in SUBSET ViewEntities
    /\ bindGroupRes = None
    /\ viewBindGroups = [e \in ViewEntities |-> None]
    /\ boundGroup = None

QueueIdle ==
    /\ qpc = "idle"
    /\ queued = {}
    /\ polylineBinding = None
    /\ viewBinding = None
    /\ views = {}
    /\ bindGroupRes = None
    /\ viewBindGroups = [e \in ViewEntities |-> None]
    /\ boundGroup = None

NextQueue ==
    \/ QueuePolylineBindGroup
    \/ QueuePolylineViewBindGroups
    \/ StartRender
    \/ SetPolylineBindGroupRender
    \/ PrepareUniforms
    \/ ExtractViews
    \/ StartQueue

-----------------------------------------------------------------------------
(* The specifications                                                      *)

InitSpecKey == InitKey /\ AssetIdle /\ DrawIdle /\ ExtractIdle /\ QueueIdle

SpecKey == InitSpecKey /\ [][NextKey]_vars

InitSpecAsset == InitAsset /\ KeyIdle /\ ExtractIdle /\ QueueIdle

SpecAsset == InitSpecAsset /\ [][NextAsset]_vars

InitSpecDraw == InitDraw /\ KeyIdle /\ ExtractIdle /\ QueueIdle

SpecDraw == InitSpecDraw /\ [][NextDraw]_vars

InitSpecExtract == InitExtract /\ KeyIdle /\ AssetIdle /\ DrawIdle /\ QueueIdle

SpecExtract == InitSpecExtract /\ [][NextExtract]_vars

InitSpecQueue == InitQueue /\ KeyIdle /\ AssetIdle /\ DrawIdle /\ ExtractIdle

SpecQueue == InitSpecQueue /\ [][NextQueue]_vars

-----------------------------------------------------------------------------
(* Properties of the pipeline key and of specialize, under SpecKey.        *)

LabelBlendDepth(d) == <<d.label, d.blend, d.depth_write_enabled>>

\* C3: for every key, specialize yields the (label, blend, depth-write) row
\* of the decision table: TRANSPARENT_MAIN_PASS set gives (transparent,
\* alpha-blend, false), also when PERSPECTIVE is set too; PERSPECTIVE alone
\* gives (transparent, alpha-blend, true); neither gives (opaque, replace,
\* true).
C3_DecisionTable ==
    kpc = "done" =>
        LET row == LabelBlendDepth(Unwrap(desc))
            t == contains(key, TRANSPARENT_MAIN_PASS)
            p == contains(key, PERSPECTIVE)
        IN  /\ t => row = <<"transparent_polyline_pipeline", "ALPHA_BLENDING", FALSE>>
            /\ (p /\ ~t) =>
                   row = <<"transparent_polyline_pipeline", "ALPHA_BLENDING", TRUE>>
            /\ (~p /\ ~t) => row = <<"opaque_polyline_pipeline", "REPLACE", TRUE>>

\* both flags set and the pipeline specialized: the TRANSPARENT row was taken
C3_Witness ==
    /\ kpc = "done"
    /\ contains(key, TRANSPARENT_MAIN_PASS)
    /\ contains(key, PERSPECTIVE)
    /\ Unwrap(desc).depth_write_enabled = FALSE

RoundTripSamples == {ToBits(Pow2(i)) : i \in 0 .. 6}

\* C5: for every x in {1, 2, 4, 8, 16, 32, 64},
\* from_msaa_samples(x).msaa_samples() = x.
C5_MsaaRoundTrip ==
    (decoded # None /\ samplesIn \in RoundTripSamples) => decoded = Some(samplesIn)

\* 64 encoded by from_msaa_samples and decoded again, no flag inserted
C5_Witness ==
    /\ kpc = "msaa"
    /\ samplesIn = ToBits(64)
    /\ key = from_msaa_samples(samplesIn)
    /\ decoded = Some(ToBits(64))

ModeFlags == BitOr(BitOr(PERSPECTIVE, TRANSPARENT_MAIN_PASS), HDR)

\* C6: the mode flags and the MSAA field are disjoint bits of the key:
\* (PERSPECTIVE | TRANSPARENT_MAIN_PASS | HDR) & MSAA_RESERVED_BITS = 0, and
\* from_msaa_samples(x) sets only bits of MSAA_RESERVED_BITS for every input
\* x, 0 and non powers of two included, so it sets none of the mode flags.
C6_FlagsDisjointFromMsaa ==
    /\ BitAnd(ModeFlags, MSAA_RESERVED_BITS) = NONE
    /\ kpc = "msaa" =>
           /\ BitAnd(key, MSAA_RESERVED_BITS) = key
           /\ BitAnd(key, ModeFlags) = NONE

\* 96 = 0b1100000 is no power of two; its field (5) has bits 0 and 2 set
C6_Witness ==
    /\ kpc = "msaa"
    /\ samplesIn = ToBits(96)
    /\ key = Shl(ToBits(5), MSAA_SHIFT_BITS)

Pow2Samples == {ToBits(Pow2(i)) : i \in 0 .. 7}

\* C10: the key's fields are independent in specialize: for every key
\* k = from_msaa_samples(x) | F, x a power of two in 1..128 and F a set of
\* mode flags, the multisample count is x, the colour format depends only on
\* HDR, (label, blend, depth-write) only on TRANSPARENT_MAIN_PASS and
\* PERSPECTIVE, and an equal key gives an equal descriptor.
C10_KeyFieldsIndependent ==
    (kpc = "done" /\ samplesIn \in Pow2Samples /\ extraIn = {}) =>
        LET d == Unwrap(desc) IN
        /\ d.multisample_count = samplesIn
        /\ d.format = IF hdrIn THEN "TEXTURE_FORMAT_HDR" ELSE "bevy_default"
        /\ \A x2 \in Pow2Samples : \A h2, p2, t2 \in BOOLEAN :
               LET k2 == insert_flags(from_msaa_samples(x2), h2, p2, t2, {})
                   d2 == specialize(k2)
               IN  /\ h2 = hdrIn => d2.format = d.format
                   /\ (p2 = perspIn /\ t2 = transpIn) =>
                          LabelBlendDepth(d2) = LabelBlendDepth(d)
                   /\ k2 = key => d2 = d

\* 128x MSAA with HDR and PERSPECTIVE: the largest field value
C10_Witness ==
    /\ kpc = "done"
    /\ samplesIn = ToBits(128)
    /\ hdrIn /\ perspIn /\ ~transpIn /\ extraIn = {}
    /\ Unwrap(desc).multisample_count = ToBits(128)

-----------------------------------------------------------------------------
(* Properties of prepare_asset and DrawPolyline, under SpecAsset.          *)

\* the f32 stored at component c of record i of a vertex buffer's bytes
RecordComponent(contents, i, c, big) ==
    from_ne_bytes(SubSeq(contents, 12 * (i - 1) + 4 * (c - 1) + 1,
                         12 * (i - 1) + 4 * c), big)

\* C8: for every point sequence of length N >= 0 that the device creates a
\* buffer for, prepare_asset yields a GpuPolyline with vertex_count = N and a
\* vertex buffer of N x 12 bytes holding the points as packed 3-float
\* records in order.
C8_PreparedMatchesPoints ==
    (prepResult # None /\ deviceOutcome = "created") =>
        LET r == Unwrap(prepResult)
            v == polylineIn.vertices
        IN  /\ r.tag = "Ok"
            /\ LET gpu == Unwrap(r.value)
                   bytes == gpu.vertex_buffer.contents
               IN  /\ gpu.vertex_count = Len(v)
                   /\ Len(bytes) = Len(v) * 12
                   /\ \A i \in 1 .. Len(v) : \A c \in 1 .. 3 :
                          RecordComponent(bytes, i, c, bigEndian) = v[i][c]
                   /\ polylines[AssetHandle] = Some(gpu)

\* five points prepared on a little-endian target: 60 bytes
C8_Witness ==
    /\ apc = "prepared"
    /\ ~bigEndian
    /\ Len(polylineIn.vertices) = 5
    /\ polylineIn.vertices[5] = <<F32_ZERO, F32_ONE, F32_TWO>>
    /\ Len(Unwrap(polylines[AssetHandle]).vertex_buffer.contents) = 60

\* C9 as stated: when buffer creation fails, prepare_asset returns an Err
\* that carries the extracted Polyline back, and no GpuPolyline is stored.
C9_FailureReturnsErr ==
    (prepResult # None /\ deviceOutcome # "created") =>
        /\ Unwrap(prepResult).tag = "Err"
        /\ Unwrap(prepResult).retry = Some(polylineIn)
        /\ polylines[AssetHandle] = None

\* C9, amended: prepare_asset has no failure value.  It never returns Err
\* and never hands the extracted Polyline back; when buffer creation fails
\* the call either does not return, and nothing is stored, or returns
\* Ok(GpuPolyline) around the invalid buffer with vertex_count = N, which is
\* stored.  It is not run again for the asset.
C9_NoFailureValue ==
    /\ apc \in {"extracted", "prepared", "aborted"}
    /\ (apc = "extracted") = (prepResult = None)
    /\ prepResult # None =>
           LET r == Unwrap(prepResult) IN
           /\ r.tag \in {"Ok", "Panic"}
           /\ r.retry = None
           /\ r.tag = "Panic" <=> deviceOutcome = "panic"
           /\ r.tag = "Panic" => (polylines[AssetHandle] = None /\ apc = "aborted")
           /\ r.tag = "Ok" =>
                  /\ polylines[AssetHandle] = r.value
                  /\ Unwrap(r.value).vertex_count = Len(polylineIn.vertices)
                  /\ Unwrap(r.value).vertex_buffer.valid = (deviceOutcome = "created")

\* buffer creation failed, and a GpuPolyline with an invalid buffer is stored
C9_Witness ==
    /\ apc = "prepared"
    /\ deviceOutcome = "invalid"
    /\ Len(polylineIn.vertices) = 2
    /\ Unwrap(prepResult).tag = "Ok"
    /\ polylines[AssetHandle] # None
    /\ ~Unwrap(polylines[AssetHandle]).vertex_buffer.valid

\* C4: for a prepared polyline with vertex_count N >= 0, DrawPolyline binds
\* its vertex buffer at slot 0 and issues one draw of vertices 0..6 with
\* max(N, 1) - 1 instances, with no underflow: N = 0 and N = 1 give 0
\* instances, N = 2 gives 1, N = 5 gives 4.
C4_InstanceCount ==
    drawResult[1] = "Success" =>
        LET gpu == Unwrap(polylines[itemHandle[1]])
            N == gpu.vertex_count
            n == (IF N >= 1 THEN N ELSE 1) - 1
        IN  /\ n >= 0
            /\ pass = <<SetVertexBuffer(0, gpu.vertex_buffer),
                        Draw(<<0, 6>>, <<0, n>>)>>
            /\ N \in {0, 1} => Unwrap(pass[2].instances) = <<0, 0>>
            /\ N = 2 => Unwrap(pass[2].instances) = <<0, 1>>
            /\ N = 5 => Unwrap(pass[2].instances) = <<0, 4>>

\* the empty polyline, prepared and drawn: no instance, no underflow
C4_Witness ==
    /\ drawResult[1] = "Success"
    /\ polylineIn.vertices = <<>>
    /\ Unwrap(polylines[AssetHandle]).vertex_count = 0
    /\ Len(pass) = 2
    /\ pass[2].op = "draw"
    /\ pass[2].instances = Some(<<0, 0>>)

-----------------------------------------------------------------------------
(* Properties of DrawPolyline over the items of a pass, under SpecDraw.    *)

Succeeded == {e \in Items : drawResult[e] = "Success"}

\* C7: DrawPolyline for an item whose handle has no GpuPolyline in the cache
\* returns Failure and records neither a vertex-buffer binding nor a draw;
\* with the GpuPolyline present it returns Success; a Failure leaves the
\* outcome of the other items' draws as it is.
C7_MissingAssetFails ==
    /\ \A e \in Items :
           drawResult[e] # "NotRun" =>
               drawResult[e] = IF polylines[itemHandle[e]] = None
                               THEN "Failure" ELSE "Success"
    /\ Len(pass) = 2 * Cardinality(Succeeded)
    /\ \A i \in 1 .. Len(pass) :
           pass[i].op = IF i % 2 = 1 THEN "set_vertex_buffer" ELSE "draw"
    /\ \A i \in 1 .. Len(pass) :
           pass[i].op = "set_vertex_buffer" =>
               \E e \in Succeeded :
                   pass[i].buffer = Some(Unwrap(polylines[itemHandle[e]]).vertex_buffer)

\* one item failed on a missing polyline, another was drawn in the same pass
C7_Witness ==
    /\ drawResult[1] = "Failure"
    /\ polylines[itemHandle[1]] = None
    /\ drawResult[2] = "Success"
    /\ Len(pass) = 2

-----------------------------------------------------------------------------
(* Properties of extract_polylines, under SpecExtract.                     *)

\* the (handle, PolylineUniform) pair extraction gives an entity
ExtractedPair(c) ==
    [handle |-> [id |-> c.handle.id, strong |-> FALSE],
     uniform |-> [transform |-> compute_matrix(c.transform)]]

-----------------------------------------------------------------------------
(* Properties of the queue systems, under SpecQueue.                       *)

BothQueued == qpc \in {"queue", "render"} /\ queued = {"polyline", "view"}

BuiltFrom(group, binding) ==
    /\ group # None
    /\ binding # None
    /\ Unwrap(group).value.entries[1].resource = Unwrap(binding)

====
